---------------------------- MODULE Spec2Model ----------------------------
(***************************************************************************)
(* BankAccount (src/finance_manager.py): deposit, withdraw, transfer,      *)
(* interest, freeze/unfreeze and the transaction history of a set of       *)
(* in-memory accounts, with the arithmetic of Python's float (IEEE 754     *)
(* binary64, round to nearest, ties to even).                              *)
(***************************************************************************)
EXTENDS Integers, Sequences, FiniteSets, TLC

(***************************************************************************)
(* Bounds of the model.                                                    *)
(***************************************************************************)
\* the most records the histories of all accounts hold together
MaxRecords == 4

(***************************************************************************)
(* Python float.  A finite value is h + l * 2^-53, held as [k |-> "fin",   *)
(* h, l] with h an integer and l a small integer: 2^-53 is half the        *)
(* spacing of the floats in [1, 2), so sums of such values show binary64   *)
(* rounding.  [k |-> "nan"] is float("nan").                               *)
(***************************************************************************)
Fin(h, l) == [k |-> "fin", h |-> h, l |-> l]

NaN == [k |-> "nan", h |-> 0, l |-> 0]

IsNaN(x) == x.k = "nan"

\* the largest power of two that is <= n, for n >= 1
RECURSIVE Pow2Floor(_)
Pow2Floor(n) == IF n < 2 THEN 1 ELSE 2 * Pow2Floor(n \div 2)

\* the multiple of q nearest to l; of two equally near, the even multiple
RoundToMultiple(l, q) ==
    LET m == l \div q
        r == l - m * q
    IN  IF 2 * r < q THEN m * q
        ELSE IF 2 * r > q THEN (m + 1) * q
        ELSE IF m % 2 = 0 THEN m * q
        ELSE (m + 1) * q

\* the binary64 nearest to the real h + l * 2^-53, for h >= 0.  In
\* [2^e, 2^(e+1)) the floats are 2^(e+1) * 2^-53 apart; just below 2^e they are
\* 2^e * 2^-53 apart; below 1 every small multiple of 2^-53 is a float.
RoundPos(h, l) ==
    IF h = 0 THEN Fin(0, l)
    ELSE LET p == Pow2Floor(h)
         IN  IF l < 0 /\ h = p THEN Fin(h, RoundToMultiple(l, p))
             ELSE Fin(h, RoundToMultiple(l, 2 * p))

\* the binary64 nearest to the real h + l * 2^-53
Round(h, l) ==
    IF h < 0
    THEN LET r == RoundPos(-h, -l) IN Fin(-r.h, -r.l)
    ELSE RoundPos(h, l)

\* x + y
FAdd(x, y) ==
    IF IsNaN(x) \/ IsNaN(y) THEN NaN ELSE Round(x.h + y.h, x.l + y.l)

\* -x
FNeg(x) == IF IsNaN(x) THEN NaN ELSE Fin(-x.h, -x.l)

\* x - y
FSub(x, y) == FAdd(x, FNeg(y))

\* x < y: every comparison with nan is False
FLt(x, y) ==
    /\ ~IsNaN(x)
    /\ ~IsNaN(y)
    /\ \/ x.h < y.h
       \/ x.h = y.h /\ x.l < y.l

\* x <= y
FLe(x, y) == FLt(x, y) \/ (~IsNaN(x) /\ ~IsNaN(y) /\ x = y)

\* x > y
FGt(x, y) == FLt(y, x)

\* x >= y
FGe(x, y) == FLe(y, x)

\* x * y for a float y that is a small whole number >= 0: the exact product
\* rounded once
FMul(x, y) ==
    IF IsNaN(x) \/ IsNaN(y) THEN NaN ELSE Round(x.h * y.h, x.l * y.h)

\* x / y when the quotient of the whole numbers x and y is a whole number
FDiv(x, y) ==
    IF IsNaN(x) \/ IsNaN(y) THEN NaN ELSE Fin(x.h \div y.h, 0)

\* str(x) of the rates the model draws
FloatStr(x) ==
    IF IsNaN(x) THEN "nan"
    ELSE IF x = Fin(100, 0) THEN "100.0"
    ELSE IF x = Fin(200, 0) THEN "200.0"
    ELSE "?"

(***************************************************************************)
(* The values the callers pass.                                            *)
(***************************************************************************)
Zero == Fin(0, 0)

\* 2^-53
Tiny == Fin(0, 1)

\* 1 + 2^-52, the float after 1.0
OnePlus == Fin(1, 2)

MinusOne == Fin(-1, 0)

Hundred == Fin(100, 0)

InitialBalances == {MinusOne, Zero, OnePlus, NaN}

Amounts == {Zero, Tiny}

Rates == {Zero, Hundred}

\* the accounts the callers hold, and the owner each is created for
Ids == {1, 2}

Currencies == {"UAH", "USD"}

\* currency: str = "UAH"
DefaultCurrency == "UAH"

\* account 1 is created with the default currency, account 2 with any
CurrencyArgs(i) == IF i = 1 THEN {DefaultCurrency} ELSE Currencies


OwnerOf(i) == IF i = 1 THEN "Alice" ELSE "Bob"

\* a transfer target that is no BankAccount
NotAnAccount == 0

\* datetime.now().strftime("%Y-%m-%d %H:%M:%S"): the calls of a run fall in
\* one second of the clock
Timestamp == "2026-11-05 10:00:00"

(***************************************************************************)
(* The action labels of the records, transliterated to ASCII (a TLA+       *)
(* string holds no Cyrillic letter).                                       *)
(***************************************************************************)
\* "Створення рахунку"
CreationLabel == "Stvorennia rakhunku"

\* "Поповнення"
DepositLabel == "Popovnennia"

\* "Зняття"
WithdrawLabel == "Zniattia"

\* f"Переказ до {other_account.owner}"
TransferLabel(owner) == "Perekaz do " \o owner

\* f"Відсотки ({rate}%)"
InterestLabel(rate) == "Vidsotky (" \o FloatStr(rate) \o "%)"

(***************************************************************************)
(* State.                                                                  *)
(***************************************************************************)
VARIABLES
    acct,   \* acct[i]: the BankAccount object i, or NoAccount before it is created
    last,   \* the last call: method, receiver, arguments and the exception raised
    pre,    \* acct as it was when the last call began
    view,   \* the list the last get_history returned: references to records
    tx      \* the transfer that is between two of its statements, if any

vars == <<acct, last, pre, view, tx>>

NoAccount == [exists |-> FALSE]

Exists(A, i) == i \in Ids /\ A[i].exists

NoError == "None"

\* None, what a method without a return statement returns
NoValue == [k |-> "none", h |-> 0, l |-> 0]

\* a call of method op on account i with peer j and number x, raising e
Call(op, i, j, x, e) ==
    [op |-> op, self |-> i, other |-> j, amount |-> x, err |-> e, ret |-> NoValue]

\* what a method leaves behind: the accounts, the exception it raised and the
\* value it returned
Result(A, e) == [A |-> A, err |-> e, ret |-> NoValue]

\* return self.balance
Return(A, i) == [A |-> A, err |-> NoError, ret |-> A[i].balance]

(***************************************************************************)
(* The methods, as functions of the accounts A, the receiver i and the     *)
(* arguments.                                                              *)
(***************************************************************************)
\* _log_transaction with insert(0, record) for append(record)
log_transaction_prepend(A, i, action, amount) ==
    [A EXCEPT ![i].transaction_history =
        <<[date |-> Timestamp, action |-> action, amount |-> amount,
           balance_after |-> A[i].balance]>> \o @]

\* _log_transaction: append a record with the balance as it is now
log_transaction(A, i, action, amount) ==
    [A EXCEPT ![i].transaction_history =
        Append(@, [date |-> Timestamp, action |-> action, amount |-> amount,
                   balance_after |-> A[i].balance])]

\* __init__
init(A, i, initial_balance, currency) ==
    IF FLt(initial_balance, Zero)
    THEN Result(A, "ValueError")
    ELSE LET fresh == [exists |-> TRUE, owner |-> OwnerOf(i),
                       balance |-> initial_balance, currency |-> currency,
                       is_frozen |-> FALSE, transaction_history |-> <<>>]
         IN  Result(log_transaction([A EXCEPT ![i] = fresh], i,
                                    CreationLabel, initial_balance),
                    NoError)

\* deposit without the frozen check
deposit_unguarded(A, i, amount) ==
    IF FLe(amount, Zero) THEN Result(A, "ValueError")
    ELSE Return(log_transaction([A EXCEPT ![i].balance = FAdd(@, amount)],
                                i, DepositLabel, amount),
                i)

\* deposit with the record written before the balance is raised
deposit_log_first(A, i, amount) ==
    IF A[i].is_frozen THEN Result(A, "PermissionError")
    ELSE IF FLe(amount, Zero) THEN Result(A, "ValueError")
    ELSE Return([log_transaction(A, i, DepositLabel, amount)
                    EXCEPT ![i].balance = FAdd(@, amount)],
                i)

\* deposit
deposit(A, i, amount) ==
    IF A[i].is_frozen THEN Result(A, "PermissionError")
    ELSE IF FLe(amount, Zero) THEN Result(A, "ValueError")
    ELSE Return(log_transaction([A EXCEPT ![i].balance = FAdd(@, amount)],
                                i, DepositLabel, amount),
                i)

\* withdraw with the amount checks moved before the frozen check
withdraw_amount_first(A, i, amount) ==
    IF FLe(amount, Zero) THEN Result(A, "ValueError")
    ELSE IF FGt(amount, A[i].balance) THEN Result(A, "ValueError")
    ELSE IF A[i].is_frozen THEN Result(A, "PermissionError")
    ELSE Return(log_transaction([A EXCEPT ![i].balance = FSub(@, amount)],
                                i, WithdrawLabel, FNeg(amount)),
                i)

\* withdraw
withdraw(A, i, amount) ==
    IF A[i].is_frozen THEN Result(A, "PermissionError")
    ELSE IF FLe(amount, Zero) THEN Result(A, "ValueError")
    ELSE IF FGt(amount, A[i].balance) THEN Result(A, "ValueError")
    ELSE Return(log_transaction([A EXCEPT ![i].balance = FSub(@, amount)],
                                i, WithdrawLabel, FNeg(amount)),
                i)

\* transfer without the relabelling of the sender's last record
transfer_without_relabel(A, i, j, amount) ==
    IF ~Exists(A, j) THEN Result(A, "TypeError")
    ELSE IF A[i].currency # A[j].currency THEN Result(A, "ValueError")
    ELSE LET w == withdraw(A, i, amount)
         IN  IF w.err # NoError THEN w
             ELSE LET d == deposit(w.A, j, amount)
                  IN  IF d.err # NoError
                      THEN Result([d.A EXCEPT ![i].balance = FAdd(@, amount)], d.err)
                      ELSE Result(d.A, NoError)

\* transfer without the comparison of the currencies
transfer_any_currency(A, i, j, amount) ==
    IF ~Exists(A, j) THEN Result(A, "TypeError")
    ELSE LET w == withdraw(A, i, amount)
         IN  IF w.err # NoError THEN w
             ELSE LET d == deposit(w.A, j, amount)
                  IN  IF d.err # NoError
                      THEN Result([d.A EXCEPT ![i].balance = FAdd(@, amount)], d.err)
                      ELSE Result([d.A EXCEPT
                                      ![i].transaction_history[
                                          Len(d.A[i].transaction_history)].action =
                                              TransferLabel(d.A[j].owner)],
                                  NoError)

\* transfer with the peer's deposit made before the sender's withdrawal
transfer_deposit_first(A, i, j, amount) ==
    IF ~Exists(A, j) THEN Result(A, "TypeError")
    ELSE IF A[i].currency # A[j].currency THEN Result(A, "ValueError")
    ELSE LET d == deposit(A, j, amount)
         IN  IF d.err # NoError THEN d
             ELSE LET w == withdraw(d.A, i, amount)
                  IN  IF w.err # NoError THEN w
                      ELSE Result([w.A EXCEPT
                                      ![i].transaction_history[
                                          Len(w.A[i].transaction_history)].action =
                                              TransferLabel(w.A[j].owner)],
                                  NoError)

\* transfer
transfer(A, i, j, amount) ==
    IF ~Exists(A, j) THEN Result(A, "TypeError")
    ELSE IF A[i].currency # A[j].currency THEN Result(A, "ValueError")
    ELSE LET w == withdraw(A, i, amount)
         IN  IF w.err # NoError THEN w
             ELSE LET d == deposit(w.A, j, amount)
                  IN  IF d.err # NoError
                      THEN Result([d.A EXCEPT ![i].balance = FAdd(@, amount)], d.err)
                      ELSE Result([d.A EXCEPT
                                      ![i].transaction_history[
                                          Len(d.A[i].transaction_history)].action =
                                              TransferLabel(d.A[j].owner)],
                                  NoError)

\* transfer up to self.withdraw(amount) with other_account.deposit(amount)
\* done in the same statement
transfer_withdraw_and_deposit(A, i, j, amount) ==
    IF ~Exists(A, j) THEN Result(A, "TypeError")
    ELSE IF A[i].currency # A[j].currency THEN Result(A, "ValueError")
    ELSE LET w == withdraw(A, i, amount)
         IN  IF w.err # NoError THEN w ELSE deposit(w.A, j, amount)

\* transfer up to and with self.withdraw(amount)
transfer_withdraw(A, i, j, amount) ==
    IF ~Exists(A, j) THEN Result(A, "TypeError")
    ELSE IF A[i].currency # A[j].currency THEN Result(A, "ValueError")
    ELSE withdraw(A, i, amount)

\* transfer: self.balance += amount; raise e
transfer_compensate(A, i, amount, e) ==
    Result([A EXCEPT ![i].balance = FAdd(@, amount)], e)

\* the relabelling that also rewrites the amount of the record
transfer_relabel_amount(A, i, j) ==
    Result([A EXCEPT
               ![i].transaction_history[Len(A[i].transaction_history)] =
                   [@ EXCEPT !.action = TransferLabel(A[j].owner),
                             !.amount = Zero]],
           NoError)

\* transfer: self.transaction_history[-1]["action"] = "Переказ до <owner>"
transfer_relabel(A, i, j) ==
    Result([A EXCEPT
               ![i].transaction_history[Len(A[i].transaction_history)].action =
                   TransferLabel(A[j].owner)],
           NoError)

\* freeze_account
freeze_account(A, i) == Result([A EXCEPT ![i].is_frozen = TRUE], NoError)

\* unfreeze_account that leaves the flag as it is
unfreeze_account_keeps_flag(A, i) == Result(A, NoError)

\* unfreeze_account
unfreeze_account(A, i) == Result([A EXCEPT ![i].is_frozen = FALSE], NoError)

\* apply_interest without the frozen check
apply_interest_unguarded(A, i, rate) ==
    IF FLe(rate, Zero) THEN Result(A, "ValueError")
    ELSE LET interest_amount == FMul(A[i].balance, FDiv(rate, Hundred))
         IN  Return(log_transaction(
                        [A EXCEPT ![i].balance = FAdd(@, interest_amount)],
                        i, InterestLabel(rate), interest_amount),
                    i)

\* apply_interest
apply_interest(A, i, rate) ==
    IF A[i].is_frozen THEN Result(A, "PermissionError")
    ELSE IF FLe(rate, Zero) THEN Result(A, "ValueError")
    ELSE LET interest_amount == FMul(A[i].balance, FDiv(rate, Hundred))
         IN  Return(log_transaction(
                        [A EXCEPT ![i].balance = FAdd(@, interest_amount)],
                        i, InterestLabel(rate), interest_amount),
                    i)

\* get_history: transaction_history[:], a new list of the same record objects;
\* <<i, n>> stands for the n-th record object of account i
get_history(A, i) ==
    [n \in 1..Len(A[i].transaction_history) |-> <<i, n>>]

(***************************************************************************)
(* The calls.  A call is taken while the histories it leaves hold no more  *)
(* than MaxRecords records together.                                       *)
(***************************************************************************)
HistoryLen(A, i) == IF Exists(A, i) THEN Len(A[i].transaction_history) ELSE 0

Fits(A) == HistoryLen(A, 1) + HistoryLen(A, 2) <= MaxRecords

Returns(call, r) ==
    /\ Fits(r.A)
    /\ acct' = r.A
    /\ last' = [call EXCEPT !.ret = r.ret]
    /\ pre' = acct
    /\ UNCHANGED <<view, tx>>

\* no transfer is under way
NoTransfer ==
    [pc |-> "idle", self |-> 0, other |-> 0, amount |-> Zero, err |-> NoError]

Init ==
    /\ acct = [i \in Ids |-> NoAccount]
    /\ last = Call("none", 0, 0, Zero, NoError)
    /\ pre = [i \in Ids |-> NoAccount]
    /\ view = <<>>
    /\ tx = NoTransfer

Construct(i, initial_balance, currency) ==
    /\ ~Exists(acct, i)
    /\ LET r == init(acct, i, initial_balance, currency)
       IN  Returns(Call("init", i, 0, initial_balance, r.err), r)

Deposit(i, amount) ==
    /\ Exists(acct, i)
    /\ LET r == deposit(acct, i, amount)
       IN  Returns(Call("deposit", i, 0, amount, r.err), r)

Withdraw(i, amount) ==
    /\ Exists(acct, i)
    /\ LET r == withdraw(acct, i, amount)
       IN  Returns(Call("withdraw", i, 0, amount, r.err), r)

Transfer(i, j, amount) ==
    /\ Exists(acct, i)
    /\ j = NotAnAccount \/ Exists(acct, j)
    /\ LET r == transfer(acct, i, j, amount)
       IN  Returns(Call("transfer", i, j, amount, r.err), r)

FreezeAccount(i) ==
    /\ Exists(acct, i)
    /\ LET r == freeze_account(acct, i)
       IN  Returns(Call("freeze_account", i, 0, Zero, r.err), r)

UnfreezeAccount(i) ==
    /\ Exists(acct, i)
    /\ LET r == unfreeze_account(acct, i)
       IN  Returns(Call("unfreeze_account", i, 0, Zero, r.err), r)

ApplyInterest(i, rate) ==
    /\ Exists(acct, i)
    /\ LET r == apply_interest(acct, i, rate)
       IN  Returns(Call("apply_interest", i, 0, rate, r.err), r)

Next ==
    \/ \E i \in Ids : \E b \in InitialBalances, c \in CurrencyArgs(i) : Construct(i, b, c)
    \/ \E i \in Ids, a \in Amounts : Deposit(i, a)
    \/ \E i \in Ids, a \in Amounts : Withdraw(i, a)
    \/ \E i \in Ids, j \in Ids \cup {NotAnAccount}, a \in Amounts : Transfer(i, j, a)
    \/ \E i \in Ids : FreezeAccount(i)
    \/ \E i \in Ids : UnfreezeAccount(i)
    \/ \E i \in Ids, r \in Rates : ApplyInterest(i, r)

Spec == Init /\ [][Next]_vars

(***************************************************************************)
(* transfer statement by statement, with the calls and reads of another    *)
(* caller between its statements.  One transfer is under way at a time.    *)
(***************************************************************************)
\* a step of the transfer under way leaves the accounts as in r
Steps(call, r) ==
    /\ Fits(r.A)
    /\ acct' = r.A
    /\ last' = call
    /\ pre' = acct
    /\ UNCHANGED view

\* lines 93-98: the checks and self.withdraw(amount); a raise ends the call
TransferWithdraw(i, j, amount) ==
    /\ tx.pc = "idle"
    /\ Exists(acct, i)
    /\ j = NotAnAccount \/ Exists(acct, j)
    /\ LET w == transfer_withdraw(acct, i, j, amount)
       IN  IF w.err # NoError
           THEN /\ Steps(Call("transfer", i, j, amount, w.err), w)
                /\ UNCHANGED tx
           ELSE /\ Steps(Call("transfer.withdraw", i, j, amount, NoError), w)
                /\ tx' = [pc |-> "withdrawn", self |-> i, other |-> j,
                          amount |-> amount, err |-> NoError]

\* lines 99-101: other_account.deposit(amount), and the except clause
\* catching what it raises
TransferDeposit ==
    /\ tx.pc = "withdrawn"
    /\ LET d == deposit(acct, tx.other, tx.amount)
       IN  /\ Steps(Call("transfer.deposit", tx.self, tx.other, tx.amount, d.err), d)
           /\ tx' = [tx EXCEPT
                        !.pc = IF d.err = NoError THEN "deposited" ELSE "failed",
                        !.err = d.err]

\* lines 102-103: the compensation and the re-raise
TransferCompensate ==
    /\ tx.pc = "failed"
    /\ Steps(Call("transfer", tx.self, tx.other, tx.amount, tx.err),
             transfer_compensate(acct, tx.self, tx.amount, tx.err))
    /\ tx' = NoTransfer

\* line 105: the relabelling, and the return
TransferRelabel ==
    /\ tx.pc = "deposited"
    /\ Steps(Call("transfer", tx.self, tx.other, tx.amount, NoError),
             transfer_relabel(acct, tx.self, tx.other))
    /\ tx' = NoTransfer

\* another caller reads account.balance
ReadBalance(i) ==
    /\ Exists(acct, i)
    /\ Returns(Call("balance", i, 0, Zero, NoError), Return(acct, i))

NextInterleaved ==
    \/ \E i \in Ids : \E b \in InitialBalances, c \in CurrencyArgs(i) : Construct(i, b, c)
    \/ \E i \in Ids, a \in Amounts : Deposit(i, a)
    \/ \E i \in Ids, a \in Amounts : Withdraw(i, a)
    \/ \E i \in Ids : FreezeAccount(i)
    \/ \E i \in Ids : UnfreezeAccount(i)
    \/ \E i \in Ids, r \in Rates : ApplyInterest(i, r)
    \/ \E i \in Ids : ReadBalance(i)
    \/ \E i \in Ids, j \in Ids \cup {NotAnAccount}, a \in Amounts :
           TransferWithdraw(i, j, a)
    \/ TransferDeposit
    \/ TransferCompensate
    \/ TransferRelabel

SpecInterleaved == Init /\ [][NextInterleaved]_vars

(***************************************************************************)
(* A caller that deposits an amount and withdraws it again at once.        *)
(***************************************************************************)
\* account.deposit(amount) followed by account.withdraw(amount); a raise of
\* deposit ends the caller's block before withdraw
deposit_withdraw(A, i, amount) ==
    LET d == deposit(A, i, amount)
    IN  IF d.err # NoError THEN d ELSE withdraw(d.A, i, amount)

DepositWithdraw(i, amount) ==
    /\ Exists(acct, i)
    /\ LET r == deposit_withdraw(acct, i, amount)
       IN  Returns(Call("deposit_withdraw", i, 0, amount, r.err), r)

NextRoundTrip ==
    \/ Next
    \/ \E i \in Ids, a \in Amounts : DepositWithdraw(i, a)

SpecRoundTrip == Init /\ [][NextRoundTrip]_vars

(***************************************************************************)
(* get_history and what its caller does with the returned list.            *)
(***************************************************************************)
\* a dict of the caller's own, in no account's history
CallerRecord == <<0, 0>>

GetHistory(i) ==
    /\ Exists(acct, i)
    /\ view' = get_history(acct, i)
    /\ last' = Call("get_history", i, 0, Zero, NoError)
    /\ pre' = acct
    /\ UNCHANGED <<acct, tx>>

\* returned.append({...})
CallerAppend ==
    /\ Len(view) < MaxRecords
    /\ view' = Append(view, CallerRecord)
    /\ last' = Call("caller_append", 0, 0, Zero, NoError)
    /\ pre' = acct
    /\ UNCHANGED <<acct, tx>>

\* returned.pop()
CallerPop ==
    /\ view # <<>>
    /\ view' = SubSeq(view, 1, Len(view) - 1)
    /\ last' = Call("caller_pop", 0, 0, Zero, NoError)
    /\ pre' = acct
    /\ UNCHANGED <<acct, tx>>

\* returned[n - 1]["action"] = "edited": an item assignment on the dict the
\* n-th element of the returned list refers to
CallerSetAction(n) ==
    /\ n \in 1..Len(view)
    /\ view[n] # CallerRecord
    /\ acct' = [acct EXCEPT
                   ![view[n][1]].transaction_history[view[n][2]].action = "edited"]
    /\ last' = Call("caller_set_action", 0, 0, Zero, NoError)
    /\ pre' = acct
    /\ UNCHANGED <<view, tx>>

NextHistory ==
    \/ \E i \in Ids : \E b \in InitialBalances, c \in CurrencyArgs(i) : Construct(i, b, c)
    \/ \E i \in Ids, a \in Amounts : Deposit(i, a)
    \/ \E i \in Ids : GetHistory(i)
    \/ CallerAppend
    \/ CallerPop
    \/ \E n \in 1..MaxRecords : CallerSetAction(n)

SpecHistory == Init /\ [][NextHistory]_vars

(***************************************************************************)
(* The claims.  last and pre hold the call that led to the state and the   *)
(* accounts as they were when it began, so a state predicate speaks of     *)
(* every call of every run.                                                *)
(***************************************************************************)
IsPrefix(s, t) == Len(s) <= Len(t) /\ SubSeq(t, 1, Len(s)) = s

History(A, i) == A[i].transaction_history

LastRecord(A, i) == History(A, i)[Len(History(A, i))]

\* the last call was method op on an existing account
Called(op) == last.op = op /\ Exists(pre, last.self)

\* the last call was a transfer from one account to an account
TransferCalled == Called("transfer") /\ Exists(pre, last.other)

\* C1: after every call, whether it returned or raised, the balance of every
\* account is >= 0.
C1_BalanceNonNegative ==
    \A i \in Ids : Exists(acct, i) => FGe(acct[i].balance, Zero)

\* C2: deposit, withdraw and apply_interest on a frozen account raise
\* PermissionError, whatever the argument, and leave the account's balance and
\* history as they were.
C2_FrozenForbidden ==
    (/\ last.op \in {"deposit", "withdraw", "apply_interest"}
     /\ Exists(pre, last.self)
     /\ pre[last.self].is_frozen)
    => /\ last.err = "PermissionError"
       /\ acct[last.self].balance = pre[last.self].balance
       /\ History(acct, last.self) = History(pre, last.self)

C2_Witness ==
    /\ Called("deposit")
    /\ pre[last.self].is_frozen
    /\ last.amount = Tiny
    /\ last.err = "PermissionError"

\* the precondition of C3: same currency, neither account frozen, A > 0 and
\* X.balance >= A
TransferAccepted ==
    /\ TransferCalled
    /\ pre[last.self].currency = pre[last.other].currency
    /\ ~pre[last.self].is_frozen
    /\ ~pre[last.other].is_frozen
    /\ FGt(last.amount, Zero)
    /\ FGe(pre[last.self].balance, last.amount)

\* what C3 promises of a transfer of A from X to Y
TransferDone ==
    /\ last.err = NoError
    /\ acct[last.self].balance = FSub(pre[last.self].balance, last.amount)
    /\ acct[last.other].balance = FAdd(pre[last.other].balance, last.amount)
    /\ LastRecord(acct, last.self).action = TransferLabel(pre[last.other].owner)

\* C3 as stated: every accepted transfer, X and Y the same account or not,
\* succeeds with X.balance = preX - A, Y.balance = preY + A and X's last
\* record relabelled as a transfer to Y's owner.
C3_TransferAnyPeer == TransferAccepted => TransferDone

\* C3 as amended: the same of every accepted transfer between two different
\* accounts.
C3_TransferDistinct ==
    (TransferAccepted /\ last.self # last.other) => TransferDone

C3_Witness ==
    /\ TransferAccepted
    /\ last.self # last.other
    /\ last.err = NoError
    /\ acct[last.other].balance # pre[last.other].balance

\* the case of C4 and C5: the receiver frozen, the sender not, the same
\* currency and 0 < A <= sender.balance
TransferToFrozen ==
    /\ TransferCalled
    /\ pre[last.self].currency = pre[last.other].currency
    /\ ~pre[last.self].is_frozen
    /\ pre[last.other].is_frozen
    /\ FGt(last.amount, Zero)
    /\ FLe(last.amount, pre[last.self].balance)

\* C4: a transfer to a frozen receiver raises PermissionError, leaves the
\* sender's balance what it was before the call and leaves the receiver's
\* balance and history unchanged.
C4_FrozenReceiverRollback ==
    TransferToFrozen
    => /\ last.err = "PermissionError"
       /\ acct[last.self].balance = pre[last.self].balance
       /\ acct[last.other].balance = pre[last.other].balance
       /\ History(acct, last.other) = History(pre, last.other)

\* C5: a transfer that fails because the receiver is frozen leaves the sender's
\* history as long as it was before the call.
C5_FrozenReceiverHistoryLength ==
    (TransferToFrozen /\ last.err = "PermissionError")
    => Len(History(acct, last.self)) = Len(History(pre, last.self))

\* C6: a transfer between accounts of different currencies raises ValueError,
\* whatever the amount, the balances and the frozen flags, and leaves both
\* accounts as they were.
C6_CurrencyMismatch ==
    (TransferCalled /\ pre[last.self].currency # pre[last.other].currency)
    => /\ last.err = "ValueError"
       /\ acct[last.self] = pre[last.self]
       /\ acct[last.other] = pre[last.other]

C6_Witness ==
    /\ TransferCalled
    /\ pre[last.self].currency # pre[last.other].currency
    /\ pre[last.self].is_frozen
    /\ FGt(last.amount, Zero)
    /\ last.err = "ValueError"

\* C7: the history is append-only: a call leaves every account in place with
\* its history before the call a prefix of its history after it, and the first
\* record is the creation record, its amount and balance_after the initial
\* balance the constructor was given.
C7_HistoryAppendOnly ==
    /\ \A i \in Ids :
          Exists(pre, i)
          => /\ Exists(acct, i)
             /\ IsPrefix(History(pre, i), History(acct, i))
    /\ \A i \in Ids :
          Exists(acct, i)
          => /\ Len(History(acct, i)) >= 1
             /\ History(acct, i)[1].action = CreationLabel
             /\ History(acct, i)[1].balance_after = History(acct, i)[1].amount
    /\ (last.op = "init" /\ last.err = NoError)
       => History(acct, last.self) =
              <<[date |-> Timestamp, action |-> CreationLabel,
                 amount |-> last.amount, balance_after |-> last.amount]>>

C7_Witness ==
    /\ TransferCalled
    /\ last.self # last.other
    /\ last.err = NoError
    /\ Len(History(acct, last.self)) = Len(History(pre, last.self)) + 1
    /\ LastRecord(acct, last.self).action = TransferLabel(acct[last.other].owner)

\* C8: nothing the caller does through the list get_history returned
\* (appending to it, removing from it, changing a field of a record in it)
\* changes an account.
C8_ReturnedHistoryIndependent ==
    last.op \in {"caller_append", "caller_pop", "caller_set_action"}
    => acct = pre

\* the rejected-amount case of C9 and C10: amount <= 0, or more than the balance
AmountRejected(i) ==
    FLe(last.amount, Zero) \/ FGt(last.amount, pre[i].balance)

\* C9: a call that breaks both the frozen gate and the amount check raises
\* PermissionError, never ValueError.
C9_FrozenCheckedFirst ==
    /\ (/\ Called("deposit")
        /\ pre[last.self].is_frozen
        /\ FLe(last.amount, Zero))
       => last.err = "PermissionError"
    /\ (/\ Called("withdraw")
        /\ pre[last.self].is_frozen
        /\ AmountRejected(last.self))
       => last.err = "PermissionError"
    /\ (/\ Called("apply_interest")
        /\ pre[last.self].is_frozen
        /\ FLe(last.amount, Zero))
       => last.err = "PermissionError"

C9_Witness ==
    /\ Called("withdraw")
    /\ pre[last.self].is_frozen
    /\ FGt(last.amount, pre[last.self].balance)
    /\ last.err = "PermissionError"

\* C10: when the sender's own withdrawal is rejected inside a transfer to an
\* account of the same currency, the transfer raises the sender's error
\* (PermissionError if the sender is frozen, else ValueError) whatever the
\* receiver's state, and both accounts are left as they were.
C10_SenderRejectedFirst ==
    (/\ TransferCalled
     /\ pre[last.self].currency = pre[last.other].currency
     /\ (pre[last.self].is_frozen \/ AmountRejected(last.self)))
    => /\ last.err = (IF pre[last.self].is_frozen
                      THEN "PermissionError" ELSE "ValueError")
       /\ acct[last.self] = pre[last.self]
       /\ acct[last.other] = pre[last.other]

C10_Witness ==
    /\ TransferCalled
    /\ last.self # last.other
    /\ pre[last.self].currency = pre[last.other].currency
    /\ ~pre[last.self].is_frozen
    /\ pre[last.other].is_frozen
    /\ FGt(last.amount, pre[last.self].balance)
    /\ last.err = "ValueError"

\* the record a call appends for a change of the balance by amount
AppendedRecord(i, action, amount) ==
    [date |-> Timestamp, action |-> action, amount |-> amount,
     balance_after |-> acct[i].balance]

\* the last call changed the balance of its account by amount (a float sum),
\* appended the one record of it and returned the new balance
BalanceMoved(action, amount) ==
    /\ last.err = NoError
    /\ acct[last.self].balance = FAdd(pre[last.self].balance, amount)
    /\ History(acct, last.self) =
           Append(History(pre, last.self),
                  AppendedRecord(last.self, action, amount))
    /\ last.ret = acct[last.self].balance
    /\ \A j \in Ids \ {last.self} : acct[j] = pre[j]

\* C11: on an unfrozen account deposit(a) with a > 0 succeeds and raises the
\* balance by a, withdraw(a) with 0 < a <= balance (a = balance included)
\* succeeds and lowers it by a; each appends exactly one record, of amount +a
\* respectively -a and balance_after the new balance, and returns the new
\* balance; a deposit or withdraw that raises appends no record; a constructed
\* account starts with one record, so k successes leave 1 + k.
C11_DepositWithdrawExact ==
    /\ Called("deposit") =>
           /\ (~pre[last.self].is_frozen /\ FGt(last.amount, Zero))
                  => last.err = NoError
           /\ IF last.err = NoError
              THEN BalanceMoved(DepositLabel, last.amount)
              ELSE History(acct, last.self) = History(pre, last.self)
    /\ Called("withdraw") =>
           /\ (/\ ~pre[last.self].is_frozen
               /\ FGt(last.amount, Zero)
               /\ FLe(last.amount, pre[last.self].balance))
                  => last.err = NoError
           /\ IF last.err = NoError
              THEN BalanceMoved(WithdrawLabel, FNeg(last.amount))
              ELSE History(acct, last.self) = History(pre, last.self)
    /\ (last.op = "init" /\ last.err = NoError)
           => Len(History(acct, last.self)) = 1

\* a fresh account after a deposit and the withdrawal of its whole balance:
\* three records
C11_Witness ==
    /\ Called("withdraw")
    /\ last.err = NoError
    /\ last.amount = pre[last.self].balance
    /\ acct[last.self].balance = Zero
    /\ Len(History(acct, last.self)) = 3
    /\ History(acct, last.self)[2].action = DepositLabel

\* C12: on an unfrozen account, for every amount > 0, deposit(amount)
\* immediately followed by withdraw(amount) both succeed and leave the balance
\* at the value it had before the deposit.
C12_DepositWithdrawRoundTrip ==
    (/\ Called("deposit_withdraw")
     /\ ~pre[last.self].is_frozen
     /\ FGt(last.amount, Zero))
        => /\ last.err = NoError
           /\ acct[last.self].balance = pre[last.self].balance

\* the last call changed nothing but the frozen flag of its account, which
\* it set to flag, and returned None
OnlyFlagSet(flag) ==
    /\ last.err = NoError
    /\ last.ret = NoValue
    /\ acct[last.self] = [pre[last.self] EXCEPT !.is_frozen = flag]
    /\ \A j \in Ids \ {last.self} : acct[j] = pre[j]

\* deposit, withdraw and apply_interest, called now on account i with amounts
\* they accept, do not raise
MutationsAccepted(i) ==
    /\ \A a \in Amounts :
           FGt(a, Zero) => deposit(acct, i, a).err = NoError
    /\ \A a \in Amounts :
           (FGt(a, Zero) /\ FLe(a, acct[i].balance))
              => withdraw(acct, i, a).err = NoError
    /\ \A r \in Rates :
           FGt(r, Zero) => apply_interest(acct, i, r).err = NoError

\* C13: freeze_account and unfreeze_account succeed from every state, set
\* is_frozen to True respectively False and leave the balance, the currency,
\* the owner and the history (no record appended) as they were; after
\* unfreeze_account the operations that change the balance are accepted again.
C13_FreezeUnfreezeFrame ==
    /\ Called("freeze_account") => OnlyFlagSet(TRUE)
    /\ Called("unfreeze_account") =>
           OnlyFlagSet(FALSE) /\ MutationsAccepted(last.self)

\* unfreeze_account on a frozen account that holds money
C13_Witness ==
    /\ Called("unfreeze_account")
    /\ pre[last.self].is_frozen
    /\ ~acct[last.self].is_frozen
    /\ FGt(acct[last.self].balance, Zero)
    /\ Len(History(acct, last.self)) = Len(History(pre, last.self))

\* C14: BankAccount(owner, initial_balance, currency) succeeds exactly when
\* initial_balance >= 0 and raises ValueError otherwise; after a success the
\* balance is initial_balance, the account is not frozen and the history is
\* one record whose amount and balance_after are initial_balance.
C14_ConstructionExact ==
    last.op = "init" =>
        /\ last.err = NoError <=> FGe(last.amount, Zero)
        /\ last.err # NoError => last.err = "ValueError" /\ acct = pre
        /\ last.err = NoError =>
               /\ acct[last.self].balance = last.amount
               /\ ~acct[last.self].is_frozen
               /\ Len(History(acct, last.self)) = 1
               /\ History(acct, last.self)[1].amount = last.amount
               /\ History(acct, last.self)[1].balance_after = last.amount

\* the record withdraw appends in a transfer of the last call's amount
WithdrawalRecord ==
    [date |-> Timestamp, action |-> WithdrawLabel,
     amount |-> FNeg(last.amount),
     balance_after |-> FSub(pre[last.self].balance, last.amount)]

\* C15: on every successful transfer of amount A the relabelled record is the
\* withdrawal record that transfer appended to the sender: the sender's last
\* record has amount -A and balance_after the sender's balance right after
\* the withdrawal and differs from the record as appended in its action only,
\* and no other record of either account is modified.
C15_RelabelsWithdrawalRecord ==
    (TransferCalled /\ last.err = NoError) =>
        /\ LastRecord(acct, last.self).amount = FNeg(last.amount)
        /\ LastRecord(acct, last.self).balance_after =
               FSub(pre[last.self].balance, last.amount)
        /\ LastRecord(acct, last.self) =
               [WithdrawalRecord EXCEPT
                   !.action = TransferLabel(pre[last.other].owner)]
        /\ IsPrefix(History(pre, last.self), History(acct, last.self))
        /\ IsPrefix(History(pre, last.other), History(acct, last.other))

\* the labels line 105 writes
TransferLabels == {TransferLabel(OwnerOf(k)) : k \in Ids}

\* record n of account i is after this step what it was before it
RecordKept(i, n) == History(acct, i)[n]' = History(acct, i)[n]

\* this step is line 105 of a transfer that succeeds, and it rewrites the
\* action, and nothing else, of record n of account i, a record that carried
\* until now the label _log_transaction gave it
RecordRelabelled(i, n) ==
    /\ tx.pc = "deposited"
    /\ tx' = NoTransfer
    /\ last'.op = "transfer"
    /\ last'.err = NoError
    /\ i = tx.self
    /\ History(acct, i)[n].action \notin TransferLabels
    /\ History(acct, i)[n]' =
           [History(acct, i)[n] EXCEPT !.action = TransferLabel(acct[tx.other].owner)]

C17_DebitedNotCredited ==
    /\ last.op = "transfer.withdraw" =>
           /\ tx.pc = "withdrawn"
           /\ acct[last.self].balance =
                  FSub(pre[last.self].balance, last.amount)
           /\ \A j \in Ids \ {last.self} : acct[j] = pre[j]
    /\ (last.op = "transfer.deposit" /\ last.err # NoError) =>
           /\ tx.pc = "failed"
           /\ acct = pre

\* another caller reads the balance of the sender between the withdrawal and
\* the deposit of a transfer, the first call on either account: the balance
\* read is below the one the sender was created with, and the receiver holds
\* what it was created with
C17_Witness ==
    /\ last.op = "balance"
    /\ tx.pc = "withdrawn"
    /\ last.self = tx.self
    /\ tx.other # tx.self
    /\ Len(History(acct, tx.self)) = 2
    /\ Len(History(acct, tx.other)) = 1
    /\ FLt(last.ret, History(acct, tx.self)[1].balance_after)
    /\ acct[tx.other].balance = History(acct, tx.other)[1].balance_after

\* amount of records 1..n of history h, added up in float from 0.0
RECURSIVE AmountSum(_, _)
AmountSum(h, n) ==
    IF n = 0 THEN Zero ELSE FAdd(AmountSum(h, n - 1), h[n].amount)

\* C18: after any sequence of operations, failed ones included, the balance
\* of every account is the sum of the amounts of the records of its history.
C18_BalanceIsSumOfAmounts ==
    \A i \in Ids :
        Exists(acct, i) =>
            acct[i].balance =
                AmountSum(History(acct, i), Len(History(acct, i)))

\* the two balances a transfer is about, added up in float
Total(A) == FAdd(A[last.self].balance, A[last.other].balance)

\* C19: every transfer between two different accounts, whether it returns or
\* raises TypeError, ValueError or PermissionError, leaves the sum of the two
\* balances what it was before the call; of the calls only deposit, withdraw
\* and apply_interest change a balance.
C19_TransferKeepsTotal ==
    /\ (TransferCalled /\ last.self # last.other) => Total(acct) = Total(pre)
    /\ (Called("transfer") /\ last.other = NotAnAccount) =>
           \A i \in Ids : Exists(pre, i) => acct[i].balance = pre[i].balance
    /\ (Called("freeze_account") \/ Called("unfreeze_account")) =>
           \A i \in Ids : Exists(pre, i) => acct[i].balance = pre[i].balance

\* C20: from freeze_account on an account until the next unfreeze_account on
\* it, no call on any account, a transfer from or to the frozen account
\* included, changes the balance or the history of that account: every call
\* that begins with account i frozen and is not unfreeze_account on i leaves
\* account i as it was.
C20_FrozenAccountUntouched ==
    \A i \in Ids :
        (/\ Exists(pre, i)
         /\ pre[i].is_frozen
         /\ ~(last.op = "unfreeze_account" /\ last.self = i))
            => /\ acct[i].balance = pre[i].balance
               /\ History(acct, i) = History(pre, i)
               /\ acct[i].is_frozen

\* a transfer to a frozen receiver that holds a deposit: the sender is
\* debited and logged, the receiver is as it was when it was frozen
C20_Witness ==
    /\ TransferToFrozen
    /\ last.self # last.other
    /\ last.err = "PermissionError"
    /\ Len(History(acct, last.self)) = Len(History(pre, last.self)) + 1
    /\ acct[last.other] = pre[last.other]
    /\ acct[last.other].is_frozen

=============================================================================
